---- MODULE Spec2Model ----
(***************************************************************************)
(* Model of mindoof's app.py: the balanced question selector               *)
(* (select_balanced_questions, _difficulty_score) and the quiz flow that   *)
(* main() routes to (show_test_config, show_quiz, reset_quiz), over        *)
(* Streamlit's st.session_state.                                           *)
(***************************************************************************)
EXTENDS Integers, Sequences, FiniteSets, TLC

(* ---------------------------------------------------------------------- *)
(* Bounds of the model                                                     *)
(* ---------------------------------------------------------------------- *)
\* number of distinct topic tags a pool may use
NumTags == 4
\* longest pool given to the selector (sorted branch, every tag allowed)
MaxPool == 7
\* longest pool given to the selector with a tag filter, shuffles or real stats
MaxSmallPool == 3
\* number of historical answers of a question that has a stats entry
MaxStat == 2
\* outcomes 0..MaxRand of the random source behind one random.shuffle call
MaxRand == 5

Tags == 1..NumTags

\* Python's None for optional values; Some(x) is a present value
None == <<>>
Some(x) == <<x>>

(* ---------------------------------------------------------------------- *)
(* random.shuffle: Fisher-Yates, j = randbelow(i+1) for i = n-1 .. 1       *)
(* ---------------------------------------------------------------------- *)
Swap(s, i, j) == [s EXCEPT ![i] = s[j], ![j] = s[i]]

RECURSIVE FisherYates(_, _, _)
FisherYates(s, i, r) ==
    IF i < 2 THEN s
    ELSE FisherYates(Swap(s, i, (r % i) + 1), i - 1, r)

\* the list after random.shuffle(s) when the random source yields r
shuffle(s, r) == FisherYates(s, Len(s), r)

(* ---------------------------------------------------------------------- *)
(* _difficulty_score: a fraction <<numerator, denominator>>                *)
(* ---------------------------------------------------------------------- *)
\* a plausible slip: the error rate inverted (share of correct answers)
_difficulty_score_inverted(q, question_stats) ==
    IF q.id \notin DOMAIN question_stats THEN <<1, 2>>
    ELSE LET stats == question_stats[q.id]
             total == stats.correct + stats.wrong
         IN  IF total = 0 THEN <<1, 2>> ELSE <<stats.correct, total>>

\* a plausible slip: a question without history counts as never failed
_difficulty_score_unseen_zero(q, question_stats) ==
    IF q.id \notin DOMAIN question_stats THEN <<0, 1>>
    ELSE LET stats == question_stats[q.id]
             total == stats.correct + stats.wrong
         IN  IF total = 0 THEN <<0, 1>> ELSE <<stats.wrong, total>>

\* lines 48-56
_difficulty_score(q, question_stats) ==
    IF q.id \notin DOMAIN question_stats THEN <<1, 2>>
    ELSE LET stats == question_stats[q.id]
             total == stats.correct + stats.wrong
         IN  IF total = 0 THEN <<1, 2>> ELSE <<stats.wrong, total>>

\* comparison of two scores as the floats wrong / total compare
ScoreLess(a, b) == a[1] * b[2] < b[1] * a[2]

(* ---------------------------------------------------------------------- *)
(* list.sort(key=_difficulty_score, reverse=True): stable, descending      *)
(* ---------------------------------------------------------------------- *)
RECURSIVE InsertByScore(_, _, _, _)
InsertByScore(sorted, k, q, question_stats) ==
    IF k > Len(sorted) THEN Append(sorted, q)
    ELSE IF ScoreLess(_difficulty_score(sorted[k], question_stats),
                      _difficulty_score(q, question_stats))
         THEN SubSeq(sorted, 1, k - 1) \o <<q>> \o SubSeq(sorted, k, Len(sorted))
         ELSE InsertByScore(sorted, k + 1, q, question_stats)

RECURSIVE SortFrom(_, _, _, _)
SortFrom(group, k, sorted, question_stats) ==
    IF k > Len(group) THEN sorted
    ELSE SortFrom(group, k + 1,
                  InsertByScore(sorted, 1, group[k], question_stats),
                  question_stats)

SortByDifficulty(group, question_stats) == SortFrom(group, 1, <<>>, question_stats)

(* ---------------------------------------------------------------------- *)
(* select_balanced_questions                                               *)
(* ---------------------------------------------------------------------- *)
\* filtered = [q for q in questions if q["tag"] in selected_tags]
Filtered(qs, tags) ==
    LET InFilter(q) == q.tag \in tags IN SelectSeq(qs, InFilter)

\* keys of questions_by_tag in insertion order (first appearance in filtered)
RECURSIVE TagOrder(_, _, _)
TagOrder(filtered, k, acc) ==
    IF k > Len(filtered) THEN acc
    ELSE LET t == filtered[k].tag
             Seen == {acc[i] : i \in 1..Len(acc)}
         IN  TagOrder(filtered, k + 1, IF t \in Seen THEN acc ELSE Append(acc, t))

\* the group of one tag, in pool order
GroupOf(filtered, t) ==
    LET HasTag(q) == q.tag = t IN SelectSeq(filtered, HasTag)

\* `if question_stats:` -- None and the empty dict are both falsy
StatsTruthy(question_stats) ==
    /\ question_stats # None
    /\ DOMAIN question_stats[1] # {}

\* a plausible slip: the groups are shuffled whether or not stats are given
OrderGroupsShuffled(filtered, question_stats, rs) ==
    LET keys == TagOrder(filtered, 1, <<>>)
    IN  [t \in {keys[i] : i \in 1..Len(keys)} |->
            shuffle(GroupOf(filtered, t), rs[t])]

\* the groups after the ordering loop (lines 77-84); rs[t] is the random outcome of
\* the shuffle of tag t's group
OrderGroups(filtered, question_stats, rs) ==
    LET keys == TagOrder(filtered, 1, <<>>)
    IN  [t \in {keys[i] : i \in 1..Len(keys)} |->
            IF StatsTruthy(question_stats)
            THEN SortByDifficulty(GroupOf(filtered, t), question_stats[1])
            ELSE shuffle(GroupOf(filtered, t), rs[t])]

\* removal of the first occurrence: list.remove
RemoveFirst(s, x) ==
    LET k == CHOOSE i \in 1..Len(s) : s[i] = x /\ \A j \in 1..(i - 1) : s[j] # x
    IN  SubSeq(s, 1, k - 1) \o SubSeq(s, k + 1, Len(s))

\* a plausible slip: the head of the group is read but never popped
LoopBodyNoPop(l) ==
    LET tag == l.tag_list[(l.tag_index % Len(l.tag_list)) + 1]
    IN  IF l.questions_by_tag[tag] # <<>>
        THEN [l EXCEPT !.selected = Append(@, Head(l.questions_by_tag[tag])),
                       !.tag_index = @ + 1]
        ELSE [l EXCEPT !.tag_list = RemoveFirst(@, tag),
                       !.broke = (Len(l.tag_list) = 1),
                       !.tag_index = IF Len(l.tag_list) = 1 THEN @ ELSE @ + 1]

\* a plausible slip: the rotation index is never advanced after a pick
LoopBodyNoAdvance(l) ==
    LET tag == l.tag_list[(l.tag_index % Len(l.tag_list)) + 1]
    IN  IF l.questions_by_tag[tag] # <<>>
        THEN [l EXCEPT !.selected = Append(@, Head(l.questions_by_tag[tag])),
                       !.questions_by_tag[tag] = Tail(@)]
        ELSE [l EXCEPT !.tag_list = RemoveFirst(@, tag),
                       !.broke = (Len(l.tag_list) = 1),
                       !.tag_index = IF Len(l.tag_list) = 1 THEN @ ELSE @ + 1]

\* a plausible slip: an exhausted tag stays in the rotation
LoopBodyNoRemove(l) ==
    LET tag == l.tag_list[(l.tag_index % Len(l.tag_list)) + 1]
    IN  IF l.questions_by_tag[tag] # <<>>
        THEN [l EXCEPT !.selected = Append(@, Head(l.questions_by_tag[tag])),
                       !.questions_by_tag[tag] = Tail(@),
                       !.tag_index = @ + 1]
        ELSE [l EXCEPT !.tag_index = @ + 1]

\* one iteration of `while len(selected) < num_questions` (lines 91-98)
LoopBody(l) ==
    LET tag == l.tag_list[(l.tag_index % Len(l.tag_list)) + 1]
    IN  IF l.questions_by_tag[tag] # <<>>
        THEN [l EXCEPT !.selected = Append(@, Head(l.questions_by_tag[tag])),
                       !.questions_by_tag[tag] = Tail(@),
                       !.tag_index = @ + 1]
        ELSE [l EXCEPT !.tag_list = RemoveFirst(@, tag),
                       !.broke = (Len(l.tag_list) = 1),
                       !.tag_index = IF Len(l.tag_list) = 1 THEN @ ELSE @ + 1]

\* the loop's locals on entry (lines 86-88)
LoopEntry(filtered, question_stats, rs) ==
    [questions_by_tag |-> OrderGroups(filtered, question_stats, rs),
     tag_list         |-> TagOrder(filtered, 1, <<>>),
     tag_index        |-> 0,
     selected         |-> <<>>,
     broke            |-> FALSE]

\* the while condition
LoopRuns(l, n) == Len(l.selected) < n /\ ~l.broke

RECURSIVE RunLoop(_, _)
RunLoop(l, n) == IF LoopRuns(l, n) THEN RunLoop(LoopBody(l), n) ELSE l

\* the list returned for the given random outcomes: rs per group shuffle, r for the
\* shuffle of the returned list
select_balanced_questions(qs, tags, n, question_stats, rs, r) ==
    LET filtered == Filtered(qs, tags)
    IN  IF filtered = <<>> THEN <<>>
        ELSE IF n >= Len(filtered) THEN shuffle(filtered, r)
        ELSE shuffle(RunLoop(LoopEntry(filtered, question_stats, rs), n).selected, r)

(* ---------------------------------------------------------------------- *)
(* The selector as a process: its arguments, its loop locals, its result   *)
(* ---------------------------------------------------------------------- *)
VARIABLES args, pc, loop, result

selvars == <<args, pc, loop, result>>

\* The application: st.session_state, the database behind db.py, the login state
\* st.user.is_logged_in, and three records kept for the properties: the calls of
\* update_session_score made so far, the last event delivered, and the answers
\* given since the quiz in progress was started.
VARIABLES session_state, db, st_user, update_calls, last_event, tally

appvars == <<session_state, db, st_user, update_calls, last_event, tally>>
vars == <<args, pc, loop, result, session_state, db, st_user, update_calls, last_event,
          tally>>

\* no answer given yet
NoTally == [presented |-> 0, correct |-> 0]

Question(i, t) == [id |-> i, tag |-> t, answer_index |-> 0]

Max(S) == CHOOSE x \in S : \A y \in S : y <= x
Min2(a, b) == IF a < b THEN a ELSE b
Range(s) == {s[i] : i \in 1..Len(s)}

\* tag sequences of length n, tags numbered in order of first appearance
RECURSIVE TagSeqs(_)
TagSeqs(n) ==
    IF n = 0 THEN {<<>>}
    ELSE UNION {{Append(s, t) : t \in 1..Min2(NumTags, Max(Range(s) \cup {0}) + 1)}
                : s \in TagSeqs(n - 1)}

Pools(maxlen) ==
    {[i \in 1..Len(s) |-> Question(i, s[i])] : s \in UNION {TagSeqs(n) : n \in 0..maxlen}}

\* a stats entry: never answered, or answered MaxStat times
StatEntries ==
    {[correct |-> 0, wrong |-> 0]} \cup
    {[correct |-> MaxStat - w, wrong |-> w] : w \in 0..MaxStat}

\* the stats maps over the questions of a pool: any subset of them has an entry
StatsMaps(p) == UNION {[D -> StatEntries] : D \in SUBSET (1..Len(p))}

\* a non-empty stats map with no entry for any question of the pool
ForeignStats == Some([i \in {0} |-> [correct |-> 1, wrong |-> 1]])

LargeInputs ==
    UNION {{[questions |-> p, selected_tags |-> Tags, num_questions |-> n,
             question_stats |-> ForeignStats] : n \in 1..(Len(p) + 1)}
           : p \in Pools(MaxPool)}

FilterInputs ==
    UNION {{[questions |-> p, selected_tags |-> T, num_questions |-> n,
             question_stats |-> s]
            : n \in 1..(Len(p) + 1), T \in SUBSET Tags, s \in {None, Some(<<>>)}}
           : p \in Pools(MaxSmallPool)}

StatInputs ==
    UNION {{[questions |-> p, selected_tags |-> Tags, num_questions |-> n,
             question_stats |-> Some(m)]
            : n \in 1..(Len(p) + 1), m \in StatsMaps(p)}
           : p \in Pools(MaxSmallPool)}

NoLoop ==
    [questions_by_tag |-> <<>>, tag_list |-> <<>>, tag_index |-> 0,
     selected |-> <<>>, broke |-> FALSE]

SelInit ==
    /\ args \in LargeInputs \cup FilterInputs \cup StatInputs
    /\ pc = "start"
    /\ loop = NoLoop
    /\ result = <<>>
    /\ session_state = <<>>
    /\ db = [sessions |-> <<>>, answers |-> <<>>]
    /\ st_user = FALSE
    /\ update_calls = <<>>
    /\ last_event = [name |-> "none", arg |-> 0, raised |-> "none"]
    /\ tally = NoTally

ArgFiltered == Filtered(args.questions, args.selected_tags)

\* lines 61-64: nothing passes the filter
SelectEmpty ==
    /\ pc = "start"
    /\ ArgFiltered = <<>>
    /\ result' = <<>>
    /\ pc' = "done"
    /\ UNCHANGED <<args, loop>>
    /\ UNCHANGED appvars

\* lines 66-68: the whole filtered pool, shuffled
SelectAll ==
    /\ pc = "start"
    /\ ArgFiltered # <<>>
    /\ args.num_questions >= Len(ArgFiltered)
    /\ \E r \in 0..MaxRand : result' = shuffle(ArgFiltered, r)
    /\ pc' = "done"
    /\ UNCHANGED <<args, loop>>
    /\ UNCHANGED appvars

\* lines 70-88: group by tag, order each group, enter the loop
SelectEnter ==
    /\ pc = "start"
    /\ ArgFiltered # <<>>
    /\ args.num_questions < Len(ArgFiltered)
    /\ LET T == {ArgFiltered[i].tag : i \in 1..Len(ArgFiltered)}
       IN  \E rs \in IF StatsTruthy(args.question_stats)
                      THEN {[t \in T |-> 0]}
                      ELSE [T -> 0..MaxRand] :
               loop' = LoopEntry(ArgFiltered, args.question_stats, rs)
    /\ pc' = "loop"
    /\ UNCHANGED <<args, result>>
    /\ UNCHANGED appvars

\* lines 90-98: one iteration
LoopIter ==
    /\ pc = "loop"
    /\ LoopRuns(loop, args.num_questions)
    /\ loop' = LoopBody(loop)
    /\ UNCHANGED <<args, pc, result>>
    /\ UNCHANGED appvars

\* lines 100-101: shuffle what was selected and return it
SelectReturn ==
    /\ pc = "loop"
    /\ ~LoopRuns(loop, args.num_questions)
    /\ \E r \in 0..MaxRand : result' = shuffle(loop.selected, r)
    /\ pc' = "done"
    /\ UNCHANGED <<args, loop>>
    /\ UNCHANGED appvars

SelNext == SelectEmpty \/ SelectAll \/ SelectEnter \/ LoopIter \/ SelectReturn

SpecSel == SelInit /\ [][SelNext]_vars

\* the call runs on: inside the loop the next iteration, and after it the return,
\* is executed once it can be
SpecSelFair ==
    SelInit /\ [][SelNext]_vars /\ WF_vars(LoopIter) /\ WF_vars(SelectReturn)

(* ---------------------------------------------------------------------- *)
(* The catalog and the database behind db.py                               *)
(* ---------------------------------------------------------------------- *)
\* options 0..NumOptions-1 of every question
NumOptions == 2
\* session records the database may hold
MaxSessions == 2
\* rounds one quiz may run through
MaxRound == 2
\* rows the answer history may hold
MaxAnswers == 2

\* the id get_or_create_google_user returns for the one user
UserId == 1
\* None where an id is expected: no session record, no user
NoId == 0
\* None as the selected option
NoAnswer == 0 - 1

TestIds == {1, 2}

\* get_test_questions: test 1 has two questions of one tag, test 2 a single question;
\* a question's id is its number within its test (lines 622-627)
get_test_questions(test_id) ==
    IF test_id = 1
    THEN <<[id |-> 1, tag |-> 1, answer_index |-> 0],
           [id |-> 2, tag |-> 1, answer_index |-> 1]>>
    ELSE <<[id |-> 1, tag |-> 2, answer_index |-> 1]>>

\* get_test_tags: the distinct tags of the test's questions
get_test_tags(test_id) ==
    {get_test_questions(test_id)[i].tag : i \in 1..Len(get_test_questions(test_id))}

\* create_session: a new record; its id is its position
create_session(d, user_id, test_id, score, total) ==
    [d EXCEPT !.sessions = Append(@, [user_id |-> user_id, test_id |-> test_id,
                                      score |-> score, total |-> total])]

\* the id create_session returns
NewSessionId(d) == Len(d.sessions) + 1

\* update_session_score: overwrite score and total of one record
update_session_score(d, session_id, score, total) ==
    [d EXCEPT !.sessions[session_id].score = score,
              !.sessions[session_id].total = total]

\* record_answer: one more row of the answer history
record_answer(d, user_id, test_id, question_id, is_correct, session_id) ==
    [d EXCEPT !.answers = Append(@, [user_id |-> user_id, test_id |-> test_id,
                                     question_id |-> question_id,
                                     correct |-> is_correct,
                                     session_id |-> session_id])]

\* get_question_stats: per answered question of the test, the user's counts
get_question_stats(d, user_id, test_id) ==
    LET Rows(qid, c) == {i \in 1..Len(d.answers) :
                            /\ d.answers[i].user_id = user_id
                            /\ d.answers[i].test_id = test_id
                            /\ d.answers[i].question_id = qid
                            /\ d.answers[i].correct = c}
        Answered == {d.answers[i].question_id : i \in
                        {j \in 1..Len(d.answers) : /\ d.answers[j].user_id = user_id
                                                   /\ d.answers[j].test_id = test_id}}
    IN  [qid \in Answered |-> [correct |-> Cardinality(Rows(qid, TRUE)),
                               wrong   |-> Cardinality(Rows(qid, FALSE))]]

(* ---------------------------------------------------------------------- *)
(* st.session_state: a dictionary; a key is present or not                 *)
(* ---------------------------------------------------------------------- *)
Has(ss, k) == k \in DOMAIN ss
Get(ss, k, default) == IF k \in DOMAIN ss THEN ss[k] ELSE default
Put(ss, upd) ==
    [k \in DOMAIN ss \cup DOMAIN upd |-> IF k \in DOMAIN upd THEN upd[k] ELSE ss[k]]
Del(ss, keys) == [k \in DOMAIN ss \ keys |-> ss[k]]

\* bool(st.session_state.get("user_id"))
_is_logged_in(ss) == Get(ss, "user_id", NoId) # NoId

\* _try_login: a silent login when st.user says so
_try_login(w) ==
    IF Get(w.ss, "user_id", NoId) # NoId THEN w
    ELSE IF w.st_user THEN [w EXCEPT !.ss = Put(@, [user_id |-> UserId])]
    ELSE w

QuizKeys ==
    {"quiz_started", "questions", "current_index", "answered", "score",
     "show_result", "selected_answer", "wrong_questions", "round_history",
     "current_round", "current_test_id", "current_session_id",
     "session_score_saved"}

\* a plausible slip: round_history is missing from the list of keys
reset_quiz_keeps_history(ss) == Del(ss, QuizKeys \ {"round_history"})

\* lines 104-111
reset_quiz(ss) == Del(ss, QuizKeys)

\* an event of the user interface: the button pressed in this run of the script
NoEvent == [name |-> "none", arg |-> 0]
Event(name, arg) == [name |-> name, arg |-> arg]

\* the outcome of one run: the world after it and whether st.rerun() was called
Ran(w, rerun) == [w |-> w, rerun |-> rerun]

(* ---------------------------------------------------------------------- *)
(* show_test_config                                                        *)
(* ---------------------------------------------------------------------- *)
\* a plausible slip: the session record is created for anonymous users too
StartQuizAlwaysPersists(w, test_id, a) ==
    LET logged_in == _is_logged_in(w.ss)
        stats == IF logged_in
                 THEN Some(get_question_stats(w.db, w.ss["user_id"], test_id))
                 ELSE None
        quiz_questions == select_balanced_questions(
                              get_test_questions(test_id), a.selected_tags,
                              a.num_questions, stats, a.rs, a.r)
        session_id == NewSessionId(w.db)
        d == create_session(w.db, Get(w.ss, "user_id", NoId), test_id, 0,
                            Len(quiz_questions))
    IN  [w EXCEPT !.db = d,
                  !.tally = NoTally,
                  !.ss = Put(@, [questions          |-> quiz_questions,
                                 current_index      |-> 0,
                                 score              |-> 0,
                                 answered           |-> FALSE,
                                 show_result        |-> FALSE,
                                 selected_answer    |-> NoAnswer,
                                 wrong_questions    |-> <<>>,
                                 round_history      |-> <<>>,
                                 current_round      |-> 1,
                                 current_test_id    |-> test_id,
                                 current_session_id |-> session_id,
                                 quiz_started       |-> TRUE,
                                 page               |-> "Tests"])]

\* lines 249-274: "Comenzar Test"
StartQuiz(w, test_id, a) ==
    LET logged_in == _is_logged_in(w.ss)
        stats == IF logged_in
                 THEN Some(get_question_stats(w.db, w.ss["user_id"], test_id))
                 ELSE None
        quiz_questions == select_balanced_questions(
                              get_test_questions(test_id), a.selected_tags,
                              a.num_questions, stats, a.rs, a.r)
        session_id == IF logged_in THEN NewSessionId(w.db) ELSE NoId
        d == IF logged_in
             THEN create_session(w.db, w.ss["user_id"], test_id, 0, Len(quiz_questions))
             ELSE w.db
    IN  [w EXCEPT !.db = d,
                  !.tally = NoTally,
                  !.ss = Put(@, [questions          |-> quiz_questions,
                                 current_index      |-> 0,
                                 score              |-> 0,
                                 answered           |-> FALSE,
                                 show_result        |-> FALSE,
                                 selected_answer    |-> NoAnswer,
                                 wrong_questions    |-> <<>>,
                                 round_history      |-> <<>>,
                                 current_round      |-> 1,
                                 current_test_id    |-> test_id,
                                 current_session_id |-> session_id,
                                 quiz_started       |-> TRUE,
                                 page               |-> "Tests"])]

\* a plausible slip: "Comenzar Test" is shown although no tag is ticked
show_test_config_unguarded(w, ev) ==
    LET test_id == Get(w.ss, "selected_test", NoId)
    IN  IF test_id = NoId
        THEN Ran([w EXCEPT !.ss = Put(@, [page |-> "Tests"])], TRUE)
        ELSE IF ev.name = "back"
        THEN Ran([w EXCEPT !.ss = Put(Del(@, {"selected_test"}), [page |-> "Tests"])],
                 TRUE)
        ELSE IF ev.name = "start"
        THEN Ran(StartQuiz(w, test_id, ev.arg), TRUE)
        ELSE Ran(w, FALSE)

\* lines 191-274; "Comenzar Test" exists only while some tag is ticked (line 243)
show_test_config(w, ev) ==
    LET test_id == Get(w.ss, "selected_test", NoId)
    IN  IF test_id = NoId
        THEN Ran([w EXCEPT !.ss = Put(@, [page |-> "Tests"])], TRUE)
        ELSE IF ev.name = "back"
        THEN Ran([w EXCEPT !.ss = Put(Del(@, {"selected_test"}), [page |-> "Tests"])],
                 TRUE)
        ELSE IF ev.name = "start" /\ ev.arg.selected_tags # {}
        THEN Ran(StartQuiz(w, test_id, ev.arg), TRUE)
        ELSE Ran(w, FALSE)

(* ---------------------------------------------------------------------- *)
(* show_quiz                                                               *)
(* ---------------------------------------------------------------------- *)
\* a plausible slip: the score is written on every rendering of the completion view
SaveScoreUnguarded(w) ==
    LET ss == w.ss
        session_id == Get(ss, "current_session_id", NoId)
    IN  IF _is_logged_in(ss) /\ session_id # NoId
        THEN [w EXCEPT
                !.db = update_session_score(@, session_id, ss["score"],
                                            Len(ss["questions"])),
                !.calls = Append(@, [session_id |-> session_id,
                                     score |-> ss["score"],
                                     total |-> Len(ss["questions"])]),
                !.ss = Put(@, [session_score_saved |-> TRUE])]
        ELSE w

\* lines 288-292: write the round's score to its session record, once
SaveScore(w) ==
    LET ss == w.ss
        session_id == Get(ss, "current_session_id", NoId)
    IN  IF /\ _is_logged_in(ss)
           /\ session_id # NoId
           /\ ~Get(ss, "session_score_saved", FALSE)
        THEN [w EXCEPT
                !.db = update_session_score(@, session_id, ss["score"],
                                            Len(ss["questions"])),
                !.calls = Append(@, [session_id |-> session_id,
                                     score |-> ss["score"],
                                     total |-> Len(ss["questions"])]),
                !.ss = Put(@, [session_score_saved |-> TRUE])]
        ELSE w

\* a plausible slip: the round is appended on every rendering
SaveRoundUnguarded(w) ==
    LET ss == w.ss
        history == Get(ss, "round_history", <<>>)
    IN  [w EXCEPT !.ss = Put(@, [round_history |->
                Append(history, [round |-> Get(ss, "current_round", 1),
                                 score |-> ss["score"],
                                 total |-> Len(ss["questions"]),
                                 wrong |-> Get(ss, "wrong_questions", <<>>)])])]

\* lines 294-303: append the round to the history unless it is there already
SaveRound(w) ==
    LET ss == w.ss
        current_round == Get(ss, "current_round", 1)
        history == Get(ss, "round_history", <<>>)
    IN  IF Len(history) < current_round
        THEN [w EXCEPT !.ss = Put(@, [round_history |->
                Append(history, [round |-> current_round,
                                 score |-> ss["score"],
                                 total |-> Len(ss["questions"]),
                                 wrong |-> Get(ss, "wrong_questions", <<>>)])])]
        ELSE w

\* a plausible slip: the next round keeps the round number
RepeatWrongSameRound(w, r) ==
    LET ss == w.ss
        wrong == shuffle(Get(ss, "wrong_questions", <<>>), r)
        logged_in == _is_logged_in(ss)
        new_session_id == IF logged_in THEN NewSessionId(w.db) ELSE NoId
        d == IF logged_in
             THEN create_session(w.db, ss["user_id"], ss["current_test_id"],
                                 0, Len(wrong))
             ELSE w.db
    IN  [w EXCEPT !.db = d,
                  !.ss = Put(@, [questions           |-> wrong,
                                 current_index       |-> 0,
                                 score               |-> 0,
                                 answered            |-> FALSE,
                                 selected_answer     |-> NoAnswer,
                                 wrong_questions     |-> <<>>,
                                 current_round       |-> Get(ss, "current_round", 1),
                                 current_session_id  |-> new_session_id,
                                 session_score_saved |-> FALSE])]

\* a plausible slip: the history entry holds the wrong list itself, not list(wrong),
\* so the in-place shuffle of the repeat reorders the recorded entry as well
RepeatWrongShufflesHistory(w, r) ==
    LET ss == w.ss
        next_round == Get(ss, "current_round", 1) + 1
        wrong == shuffle(Get(ss, "wrong_questions", <<>>), r)
        history == Get(ss, "round_history", <<>>)
        logged_in == _is_logged_in(ss)
        new_session_id == IF logged_in THEN NewSessionId(w.db) ELSE NoId
        d == IF logged_in
             THEN create_session(w.db, ss["user_id"], ss["current_test_id"],
                                 0, Len(wrong))
             ELSE w.db
    IN  [w EXCEPT !.db = d,
                  !.ss = Put(@, [questions           |-> wrong,
                                 current_index       |-> 0,
                                 score               |-> 0,
                                 answered            |-> FALSE,
                                 selected_answer     |-> NoAnswer,
                                 wrong_questions     |-> <<>>,
                                 round_history       |->
                                     [history EXCEPT ![Len(history)].wrong = wrong],
                                 current_round       |-> next_round,
                                 current_session_id  |-> new_session_id,
                                 session_score_saved |-> FALSE])]

\* a plausible slip: the next round starts with the score of the last one
RepeatWrongKeepsScore(w, r) ==
    LET ss == w.ss
        next_round == Get(ss, "current_round", 1) + 1
        wrong == shuffle(Get(ss, "wrong_questions", <<>>), r)
        logged_in == _is_logged_in(ss)
        new_session_id == IF logged_in THEN NewSessionId(w.db) ELSE NoId
        d == IF logged_in
             THEN create_session(w.db, ss["user_id"], ss["current_test_id"],
                                 0, Len(wrong))
             ELSE w.db
    IN  [w EXCEPT !.db = d,
                  !.ss = Put(@, [questions           |-> wrong,
                                 current_index       |-> 0,
                                 answered            |-> FALSE,
                                 selected_answer     |-> NoAnswer,
                                 wrong_questions     |-> <<>>,
                                 current_round       |-> next_round,
                                 current_session_id  |-> new_session_id,
                                 session_score_saved |-> FALSE])]

\* lines 347-366: "Repetir preguntas falladas"
RepeatWrong(w, r) ==
    LET ss == w.ss
        next_round == Get(ss, "current_round", 1) + 1
        wrong == shuffle(Get(ss, "wrong_questions", <<>>), r)
        logged_in == _is_logged_in(ss)
        new_session_id == IF logged_in THEN NewSessionId(w.db) ELSE NoId
        d == IF logged_in
             THEN create_session(w.db, ss["user_id"], ss["current_test_id"],
                                 0, Len(wrong))
             ELSE w.db
    IN  [w EXCEPT !.db = d,
                  !.ss = Put(@, [questions           |-> wrong,
                                 current_index       |-> 0,
                                 score               |-> 0,
                                 answered            |-> FALSE,
                                 selected_answer     |-> NoAnswer,
                                 wrong_questions     |-> <<>>,
                                 current_round       |-> next_round,
                                 current_session_id  |-> new_session_id,
                                 session_score_saved |-> FALSE])]

\* sum(r[field] for r in history)
RECURSIVE Sum(_, _)
Sum(history, field) ==
    IF history = <<>> THEN 0 ELSE Head(history)[field] + Sum(Tail(history), field)

\* a plausible slip: the sums leave out the first round
AccumulatedSkipsFirst(history) ==
    IF Len(history) > 1
    THEN Some([correct_all |-> Sum(Tail(history), "score"),
               total_all   |-> Sum(Tail(history), "total")])
    ELSE None

\* lines 319-326: the accumulated summary of the completion view, shown when more
\* than one round is recorded
Accumulated(history) ==
    IF Len(history) > 1
    THEN Some([correct_all |-> Sum(history, "score"),
               total_all   |-> Sum(history, "total")])
    ELSE None

\* lines 282-375: the round-completion view and its buttons
RoundComplete(w, ev) ==
    LET w1 == SaveRound(SaveScore(w))
        wrong == Get(w1.ss, "wrong_questions", <<>>)
    IN  IF wrong # <<>> /\ ev.name = "repeat"
        THEN Ran(RepeatWrong(w1, ev.arg), TRUE)
        ELSE IF ev.name = "home"
        THEN Ran([w1 EXCEPT !.ss = reset_quiz(@)], TRUE)
        ELSE Ran(w1, FALSE)

\* a plausible slip: a wrong answer scores as well
SubmitAnswerAlwaysScores(w, i) ==
    LET ss == w.ss
        question == ss["questions"][ss["current_index"] + 1]
        is_correct == i = question.answer_index
        ss1 == Put(ss, [selected_answer |-> i, answered |-> TRUE,
                        score |-> ss["score"] + 1])
    IN  [w EXCEPT !.ss = ss1,
                  !.db = IF _is_logged_in(ss)
                         THEN record_answer(@, ss["user_id"], ss["current_test_id"],
                                            question.id, is_correct,
                                            Get(ss, "current_session_id", NoId))
                         ELSE @]

\* a plausible slip: every answer is recorded as correct
SubmitAnswerRecordsCorrect(w, i) ==
    LET ss == w.ss
        question == ss["questions"][ss["current_index"] + 1]
        is_correct == i = question.answer_index
        ss1 == IF is_correct
               THEN Put(ss, [selected_answer |-> i, answered |-> TRUE,
                             score |-> ss["score"] + 1])
               ELSE Put(ss, [selected_answer |-> i, answered |-> TRUE,
                             wrong_questions |->
                                 Append(ss["wrong_questions"], question)])
    IN  [w EXCEPT !.ss = ss1,
                  !.tally = [presented |-> @.presented + 1,
                             correct   |-> @.correct + (IF is_correct THEN 1 ELSE 0)],
                  !.db = IF _is_logged_in(ss)
                         THEN record_answer(@, ss["user_id"], ss["current_test_id"],
                                            question.id, TRUE,
                                            Get(ss, "current_session_id", NoId))
                         ELSE @]

\* lines 393-407: an option button pressed on the current question
SubmitAnswer(w, i) ==
    LET ss == w.ss
        question == ss["questions"][ss["current_index"] + 1]
        is_correct == i = question.answer_index
        ss1 == IF is_correct
               THEN Put(ss, [selected_answer |-> i, answered |-> TRUE,
                             score |-> ss["score"] + 1])
               ELSE Put(ss, [selected_answer |-> i, answered |-> TRUE,
                             wrong_questions |->
                                 Append(ss["wrong_questions"], question)])
    IN  [w EXCEPT !.ss = ss1,
                  !.tally = [presented |-> @.presented + 1,
                             correct   |-> @.correct + (IF is_correct THEN 1 ELSE 0)],
                  !.db = IF _is_logged_in(ss)
                         THEN record_answer(@, ss["user_id"], ss["current_test_id"],
                                            question.id, is_correct,
                                            Get(ss, "current_session_id", NoId))
                         ELSE @]

\* a plausible slip: the answered flag survives the move to the next question
AdvanceKeepsAnswered(w) ==
    [w EXCEPT !.ss = Put(@, [current_index   |-> w.ss["current_index"] + 1,
                             selected_answer |-> NoAnswer])]

\* lines 429-433: "Siguiente pregunta"
Advance(w) ==
    [w EXCEPT !.ss = Put(@, [current_index   |-> w.ss["current_index"] + 1,
                             answered        |-> FALSE,
                             selected_answer |-> NoAnswer])]

\* a plausible slip: the option buttons are live on an answered question too
QuestionViewNoGuard(w, ev) ==
    IF ev.name = "option" THEN Ran(SubmitAnswer(w, ev.arg), TRUE)
    ELSE IF w.ss["answered"] /\ ev.name = "next" THEN Ran(Advance(w), TRUE)
    ELSE IF ev.name = "abandon" THEN Ran([w EXCEPT !.ss = reset_quiz(@)], TRUE)
    ELSE Ran(w, FALSE)

\* a plausible slip: "Siguiente pregunta" is live before the answer is given
QuestionViewEarlyNext(w, ev) ==
    IF ~w.ss["answered"] /\ ev.name = "option"
    THEN Ran(SubmitAnswer(w, ev.arg), TRUE)
    ELSE IF ev.name = "next" THEN Ran(Advance(w), TRUE)
    ELSE IF ev.name = "abandon" THEN Ran([w EXCEPT !.ss = reset_quiz(@)], TRUE)
    ELSE Ran(w, FALSE)

\* lines 377-438: the question view and its buttons
QuestionView(w, ev) ==
    IF ~w.ss["answered"] /\ ev.name = "option"
    THEN Ran(SubmitAnswer(w, ev.arg), TRUE)
    ELSE IF w.ss["answered"] /\ ev.name = "next"
    THEN Ran(Advance(w), TRUE)
    ELSE IF ev.name = "abandon"
    THEN Ran([w EXCEPT !.ss = reset_quiz(@)], TRUE)
    ELSE Ran(w, FALSE)

show_quiz(w, ev) ==
    IF w.ss["current_index"] >= Len(w.ss["questions"])
    THEN RoundComplete(w, ev)
    ELSE QuestionView(w, ev)

(* ---------------------------------------------------------------------- *)
(* show_dashboard and _start_quiz_from_wrong                               *)
(* ---------------------------------------------------------------------- *)
\* get_user_sessions: the ids of the user's session records, newest first
RECURSIVE SessionsFrom(_, _, _)
SessionsFrom(d, user_id, k) ==
    IF k = 0 THEN <<>>
    ELSE IF d.sessions[k].user_id = user_id
         THEN <<k>> \o SessionsFrom(d, user_id, k - 1)
         ELSE SessionsFrom(d, user_id, k - 1)

get_user_sessions(d, user_id) == SessionsFrom(d, user_id, Len(d.sessions))

\* get_session_wrong_answers: the wrong answers recorded under a session id
RECURSIVE WrongFrom(_, _, _)
WrongFrom(d, session_id, k) ==
    IF k > Len(d.answers) THEN <<>>
    ELSE IF d.answers[k].session_id = session_id /\ ~d.answers[k].correct
         THEN <<[test_id |-> d.answers[k].test_id,
                 question_id |-> d.answers[k].question_id]>>
              \o WrongFrom(d, session_id, k + 1)
         ELSE WrongFrom(d, session_id, k + 1)

get_session_wrong_answers(d, session_id) == WrongFrom(d, session_id, 1)

\* get_test_questions_by_ids: the test's questions with one of the ids
get_test_questions_by_ids(test_id, ids) ==
    LET Wanted(q) == q.id \in ids
    IN  IF test_id \in TestIds THEN SelectSeq(get_test_questions(test_id), Wanted)
        ELSE <<>>

\* lines 498-502: the wrong references of the selected sessions, concatenated
RECURSIVE AllWrong(_, _, _)
AllWrong(d, selected_session_ids, k) ==
    IF k > Len(selected_session_ids) THEN <<>>
    ELSE get_session_wrong_answers(d, selected_session_ids[k])
         \o AllWrong(d, selected_session_ids, k + 1)

\* lines 504-511: first occurrence of every (test_id, question_id)
RECURSIVE UniqueWrong(_, _, _)
UniqueWrong(all_wrong, k, unique_wrong) ==
    IF k > Len(all_wrong) THEN unique_wrong
    ELSE UniqueWrong(all_wrong, k + 1,
            IF \E i \in 1..Len(unique_wrong) : unique_wrong[i] = all_wrong[k]
            THEN unique_wrong ELSE Append(unique_wrong, all_wrong[k]))

\* a plausible slip: by_test gets a key per reference, not per test
RECURSIVE TestOrderPerReference(_, _, _)
TestOrderPerReference(wrong_refs, k, acc) ==
    IF k > Len(wrong_refs) THEN acc
    ELSE TestOrderPerReference(wrong_refs, k + 1, Append(acc, wrong_refs[k].test_id))

\* keys of by_test in insertion order
RECURSIVE TestOrder(_, _, _)
TestOrder(wrong_refs, k, acc) ==
    IF k > Len(wrong_refs) THEN acc
    ELSE TestOrder(wrong_refs, k + 1,
            IF \E i \in 1..Len(acc) : acc[i] = wrong_refs[k].test_id
            THEN acc ELSE Append(acc, wrong_refs[k].test_id))

\* lines 524-530: the questions of every test with a truthy id, concatenated
RECURSIVE ResolveWrong(_, _, _)
ResolveWrong(wrong_refs, tids, k) ==
    IF k > Len(tids) THEN <<>>
    ELSE LET q_ids == {wrong_refs[i].question_id :
                          i \in {j \in 1..Len(wrong_refs) :
                                    wrong_refs[j].test_id = tids[k]}}
         IN  (IF tids[k] # NoId THEN get_test_questions_by_ids(tids[k], q_ids)
              ELSE <<>>)
             \o ResolveWrong(wrong_refs, tids, k + 1)

\* the last truthy key of by_test, None (NoId) when there is none
LastTestId(tids) ==
    LET Truthy == {i \in 1..Len(tids) : tids[i] # NoId}
    IN  IF Truthy = {} THEN NoId ELSE tids[Max(Truthy)]

\* a plausible slip: the early return on an empty question list is missing
_start_quiz_from_wrong_no_return(w, wrong_refs, r) ==
    LET tids == TestOrder(wrong_refs, 1, <<>>)
        resolved == ResolveWrong(wrong_refs, tids, 1)
        quiz_questions == shuffle(resolved, r)
        tid == LastTestId(tids)
    IN  Ran([w EXCEPT
                !.db = create_session(@, w.ss["user_id"], tid, 0, Len(quiz_questions)),
                !.tally = NoTally,
                !.ss = Put(@, [questions           |-> quiz_questions,
                               current_index       |-> 0,
                               score               |-> 0,
                               answered            |-> FALSE,
                               show_result         |-> FALSE,
                               selected_answer     |-> NoAnswer,
                               wrong_questions     |-> <<>>,
                               round_history       |-> <<>>,
                               current_round       |-> 1,
                               current_test_id     |-> tid,
                               current_session_id  |-> NewSessionId(w.db),
                               session_score_saved |-> FALSE,
                               quiz_started        |-> TRUE,
                               page                |-> "Tests"])], TRUE)

\* lines 518-554
_start_quiz_from_wrong(w, wrong_refs, r) ==
    LET tids == TestOrder(wrong_refs, 1, <<>>)
        resolved == ResolveWrong(wrong_refs, tids, 1)
        quiz_questions == shuffle(resolved, r)
        tid == LastTestId(tids)
    IN  IF resolved = <<>> THEN Ran(w, FALSE)
        ELSE Ran([w EXCEPT
                !.db = create_session(@, w.ss["user_id"], tid, 0, Len(quiz_questions)),
                !.tally = NoTally,
                !.ss = Put(@, [questions           |-> quiz_questions,
                               current_index       |-> 0,
                               score               |-> 0,
                               answered            |-> FALSE,
                               show_result         |-> FALSE,
                               selected_answer     |-> NoAnswer,
                               wrong_questions     |-> <<>>,
                               round_history       |-> <<>>,
                               current_round       |-> 1,
                               current_test_id     |-> tid,
                               current_session_id  |-> NewSessionId(w.db),
                               session_score_saved |-> FALSE,
                               quiz_started        |-> TRUE,
                               page                |-> "Tests"])], TRUE)

\* the sessions whose row shows a checkbox: total - score > 0
Selectable(d, user_id) ==
    LET HasWrong(sid) == d.sessions[sid].total - d.sessions[sid].score > 0
    IN  SelectSeq(get_user_sessions(d, user_id), HasWrong)

\* lines 441-515; ev.arg.checked is the set of ticked checkboxes
show_dashboard(w, ev) ==
    LET user_id == w.ss["user_id"]
        Ticked(sid) == sid \in ev.arg.checked
        selected_session_ids == SelectSeq(Selectable(w.db, user_id), Ticked)
        unique_wrong == UniqueWrong(AllWrong(w.db, selected_session_ids, 1), 1, <<>>)
    IN  IF ev.name = "practice" /\ selected_session_ids # <<>>
        THEN _start_quiz_from_wrong(w, unique_wrong, ev.arg.r)
        ELSE Ran(w, FALSE)

(* ---------------------------------------------------------------------- *)
(* The other pages, as far as they move between pages                      *)
(* ---------------------------------------------------------------------- *)
\* lines 139-142: "Seleccionar" on a test card
show_test_catalog(w, ev) ==
    IF ev.name = "select"
    THEN Ran([w EXCEPT !.ss = Put(@, [selected_test |-> ev.arg,
                                      page |-> "Configurar Test"])], TRUE)
    ELSE Ran(w, FALSE)

\* lines 743-760: "Guardar"
show_profile(w, ev) ==
    IF ev.name = "save"
    THEN Ran([w EXCEPT !.ss = Put(@, [page |-> Get(w.ss, "prev_page", "Tests")])], TRUE)
    ELSE Ran(w, FALSE)

(* ---------------------------------------------------------------------- *)
(* main: one run of the script                                             *)
(* ---------------------------------------------------------------------- *)
NavItems(logged_in) == IF logged_in THEN {"Tests", "Dashboard"} ELSE {"Tests"}

\* a plausible slip: the dashboard is shown whether or not a quiz is started
RouteDashboardFirst(ss) ==
    LET logged_in == _is_logged_in(ss)
        page == Get(ss, "page", "Tests")
        quiz_started == Get(ss, "quiz_started", FALSE)
    IN  IF logged_in /\ page = "Perfil" THEN "profile"
        ELSE IF logged_in /\ page = "Dashboard" THEN "dashboard"
        ELSE IF page = "Configurar Test" THEN "config"
        ELSE IF quiz_started THEN "quiz"
        ELSE "catalog"

\* lines 818-834: the view main() hands the run to
Route(ss) ==
    LET logged_in == _is_logged_in(ss)
        page == Get(ss, "page", "Tests")
        quiz_started == Get(ss, "quiz_started", FALSE)
    IN  IF logged_in /\ page = "Perfil" THEN "profile"
        ELSE IF logged_in /\ page = "Dashboard" /\ ~quiz_started THEN "dashboard"
        ELSE IF page = "Configurar Test" THEN "config"
        ELSE IF quiz_started THEN "quiz"
        ELSE "catalog"

main(w, ev) ==
    LET w0 == _try_login(w)
        w1 == IF Has(w0.ss, "page") THEN w0
              ELSE [w0 EXCEPT !.ss = Put(@, [page |-> "Tests"])]
        logged_in == _is_logged_in(w1.ss)
        w2 == IF Has(w1.ss, "quiz_started") THEN w1
              ELSE [w1 EXCEPT !.ss = Put(@, [quiz_started |-> FALSE])]
        view == Route(w2.ss)
    IN  IF logged_in /\ ev.name = "menu_profile"
        THEN Ran([w1 EXCEPT !.ss = Put(@, [prev_page |-> w1.ss["page"],
                                           page |-> "Perfil"])], TRUE)
        ELSE IF logged_in /\ ev.name = "menu_logout"
        THEN Ran([w1 EXCEPT !.ss = Del(@, DOMAIN @), !.st_user = FALSE], TRUE)
        ELSE IF ev.name = "nav" /\ ev.arg \in NavItems(logged_in)
        THEN Ran([w1 EXCEPT !.ss = Put(@, [page |-> ev.arg])], TRUE)
        ELSE IF view = "profile" THEN show_profile(w2, ev)
        ELSE IF view = "dashboard" THEN show_dashboard(w2, ev)
        ELSE IF view = "config" THEN show_test_config(w2, ev)
        ELSE IF view = "quiz" THEN show_quiz(w2, ev)
        ELSE show_test_catalog(w2, ev)

\* the run the event triggers, and the runs st.rerun() starts after it
RECURSIVE Run(_, _)
Run(w, ev) ==
    LET ran == main(w, ev)
    IN  IF ran.rerun THEN Run(ran.w, NoEvent) ELSE ran.w

(* ---------------------------------------------------------------------- *)
(* The application as a state machine: one action per event                *)
(* ---------------------------------------------------------------------- *)
World ==
    [ss |-> session_state, db |-> db, st_user |-> st_user, calls |-> update_calls,
     tally |-> tally]

EmptyState == [k \in {} |-> 0]

\* no handler of app.py raises: the last event is recorded with raised = "none";
\* the tally of answers is kept while a quiz is in progress
Becomes(w, name, arg) ==
    /\ session_state' = w.ss
    /\ db' = w.db
    /\ st_user' = w.st_user
    /\ update_calls' = w.calls
    /\ last_event' = [name |-> name, arg |-> arg, raised |-> "none"]
    /\ tally' = IF Get(w.ss, "quiz_started", FALSE) THEN w.tally ELSE NoTally
    /\ UNCHANGED selvars

\* the round events are recorded by name, an option with its index
Deliver(ev, name) ==
    Becomes(Run(World, ev), name, IF name = "option" THEN ev.arg ELSE 0)

LoggedIn == _is_logged_in(session_state)
View == Route(session_state)
InQuiz == View = "quiz"
\* the quiz is on the completion view / on a question
Completed ==
    /\ Get(session_state, "quiz_started", FALSE)
    /\ session_state["current_index"] >= Len(session_state["questions"])
OnQuestion ==
    /\ Get(session_state, "quiz_started", FALSE)
    /\ session_state["current_index"] < Len(session_state["questions"])
\* a session record can still be created
RoomForSession == LoggedIn => Len(db.sessions) < MaxSessions

Init ==
    /\ LET w == Run([ss |-> EmptyState, db |-> [sessions |-> <<>>, answers |-> <<>>],
                     st_user |-> FALSE, calls |-> <<>>, tally |-> NoTally], NoEvent)
       IN  /\ session_state = w.ss
           /\ db = w.db
           /\ st_user = w.st_user
           /\ update_calls = w.calls
    /\ last_event = [name |-> "none", arg |-> 0, raised |-> "none"]
    /\ tally = NoTally
    /\ args = [questions |-> <<>>, selected_tags |-> {}, num_questions |-> 1,
               question_stats |-> None]
    /\ pc = "idle"
    /\ loop = NoLoop
    /\ result = <<>>

\* any interaction that presses no button: the script runs again
Rerun == Deliver(NoEvent, "other")

\* st.login: the identity provider confirms the user and the browser comes back
\* in a new session, whose first run logs the user in
Login ==
    /\ ~st_user
    /\ Becomes(Run([World EXCEPT !.st_user = TRUE, !.ss = EmptyState], NoEvent),
               "other", 0)

Logout == LoggedIn /\ Deliver(Event("menu_logout", 0), "other")

OpenProfile == LoggedIn /\ Deliver(Event("menu_profile", 0), "other")

SaveProfile == View = "profile" /\ Deliver(Event("save", 0), "other")

Navigate ==
    \E label \in NavItems(LoggedIn) : Deliver(Event("nav", label), "other")

SelectTest ==
    /\ View = "catalog"
    /\ \E t \in TestIds : Deliver(Event("select", t), "other")

\* "Volver a tests" on the configuration page
LeaveConfig == View = "config" /\ Deliver(Event("back", 0), "other")

\* the configuration page with some tags ticked: "Comenzar Test" where the page
\* shows it, a mere rerun where all tags are unticked; the event is recorded with
\* the number of questions the ticked tags leave eligible
ComenzarTest ==
    /\ View = "config"
    /\ Has(session_state, "selected_test")
    /\ RoomForSession
    /\ LET test_id == session_state["selected_test"]
           questions == get_test_questions(test_id)
       IN  \E selected_tags \in SUBSET get_test_tags(test_id) :
           \E num_questions \in 1..Len(questions) :
           \E r \in 0..MaxRand :
           \E r1 \in IF LoggedIn /\ DOMAIN get_question_stats(db, UserId, test_id) # {}
                     THEN {0} ELSE 0..MaxRand :
               Becomes(Run(World, Event("start", [selected_tags |-> selected_tags,
                                                  num_questions |-> num_questions,
                                                  rs |-> [t \in get_test_tags(test_id) |-> r1],
                                                  r |-> r])),
                       "start", Len(Filtered(questions, selected_tags)))

PracticeWrong ==
    /\ View = "dashboard"
    /\ RoomForSession
    /\ \E checked \in SUBSET (1..Len(db.sessions)) :
       \E r \in 0..MaxRand :
           /\ checked # {}
           /\ checked \subseteq Range(Selectable(db, UserId))
           /\ Deliver(Event("practice", [checked |-> checked, r |-> r]), "other")

\* an option button of the quiz view
ClickOption ==
    /\ InQuiz
    /\ LoggedIn => Len(db.answers) < MaxAnswers
    /\ \E i \in 0..(NumOptions - 1) : Deliver(Event("option", i), "option")

\* "Siguiente pregunta"
ClickNext == InQuiz /\ Deliver(Event("next", 0), "next")

\* "Abandonar test"
Abandon == InQuiz /\ OnQuestion /\ Deliver(Event("abandon", 0), "abandon")

\* "Repetir preguntas falladas"
ClickRepeat ==
    /\ InQuiz
    /\ Completed
    /\ session_state["current_round"] < MaxRound
    /\ RoomForSession
    /\ \E r \in 0..MaxRand : Deliver(Event("repeat", r), "other")

\* "Volver al inicio"
ClickHome == InQuiz /\ Completed /\ Deliver(Event("home", 0), "home")

Next ==
    \/ Rerun
    \/ Login
    \/ Logout
    \/ OpenProfile
    \/ SaveProfile
    \/ Navigate
    \/ SelectTest
    \/ LeaveConfig
    \/ ComenzarTest
    \/ PracticeWrong
    \/ ClickOption
    \/ ClickNext
    \/ Abandon
    \/ ClickRepeat
    \/ ClickHome

Spec == Init /\ [][Next]_vars

(* ---------------------------------------------------------------------- *)
(* The dashboard of a user with a history: practice from earlier sessions  *)
(* ---------------------------------------------------------------------- *)
\* session records of the history the dashboard starts from
MaxHistory == 2
\* wrong answers recorded under one session of the history
MaxWrongRows == 2

\* the id of a test that was deleted after the user took it (delete_test, line 685)
DeletedTest == 3

\* the question numbers a session of a test can have recorded
NumbersOf(test_id) ==
    IF test_id \in TestIds
    THEN {get_test_questions(test_id)[i].id : i \in 1..Len(get_test_questions(test_id))}
    ELSE {1}

\* what one earlier session left behind: its test and the question numbers of its
\* wrong answers, in the order recorded
SessionShapes ==
    UNION {{[test_id |-> t, wrong |-> s]
            : s \in UNION {[1..n -> NumbersOf(t)] : n \in 1..MaxWrongRows}}
           : t \in TestIds \cup {DeletedTest}}

\* the rows record_answer wrote under session record k
RowsOf(shape, k) ==
    [i \in 1..Len(shape.wrong) |->
        [user_id |-> UserId, test_id |-> shape.test_id, question_id |-> shape.wrong[i],
         correct |-> FALSE, session_id |-> k]]

RECURSIVE RowsFrom(_, _)
RowsFrom(shapes, k) ==
    IF k > Len(shapes) THEN <<>> ELSE RowsOf(shapes[k], k) \o RowsFrom(shapes, k + 1)

\* the database after the sessions of the given shapes
HistoryOf(shapes) ==
    [sessions |-> [k \in 1..Len(shapes) |->
                      [user_id |-> UserId, test_id |-> shapes[k].test_id,
                       score |-> 0, total |-> Len(shapes[k].wrong)]],
     answers  |-> RowsFrom(shapes, 1)]

Histories ==
    {HistoryOf(shapes) : shapes \in UNION {[1..n -> SessionShapes] : n \in 1..MaxHistory}}

\* the ticked checkboxes as a number: bit k - 1 stands for session k
RECURSIVE Mask(_, _)
Mask(checked, k) ==
    IF k = 0 THEN 0
    ELSE (IF k \in checked THEN 2 ^ (k - 1) ELSE 0) + Mask(checked, k - 1)

Checked(mask, n) == {k \in 1..n : (mask \div (2 ^ (k - 1))) % 2 = 1}

\* the user is logged in and has opened the dashboard
PracticeInit ==
    /\ \E h \in Histories :
          LET w == Run([ss |-> [page |-> "Dashboard"], db |-> h, st_user |-> TRUE,
                        calls |-> <<>>, tally |-> NoTally], NoEvent)
          IN  /\ session_state = w.ss
              /\ db = w.db
              /\ st_user = w.st_user
              /\ update_calls = w.calls
    /\ last_event = [name |-> "none", arg |-> 0, raised |-> "none"]
    /\ tally = NoTally
    /\ args = [questions |-> <<>>, selected_tags |-> {}, num_questions |-> 1,
               question_stats |-> None]
    /\ pc = "idle"
    /\ loop = NoLoop
    /\ result = <<>>

\* "Practicar preguntas falladas" with some checkboxes ticked; the event is recorded
\* with the ticked sessions
PracticeFromHistory ==
    /\ View = "dashboard"
    /\ Len(db.sessions) <= MaxHistory
    /\ \E checked \in SUBSET (1..Len(db.sessions)) :
       \E r \in 0..MaxRand :
           /\ checked # {}
           /\ checked \subseteq Range(Selectable(db, UserId))
           /\ Becomes(Run(World, Event("practice", [checked |-> checked, r |-> r])),
                      "practice", Mask(checked, Len(db.sessions)))

\* an option button of the quiz view
AnswerPractice ==
    /\ InQuiz
    /\ \E i \in 0..(NumOptions - 1) : Deliver(Event("option", i), "option")

PracticeNext ==
    \/ PracticeFromHistory
    \/ AnswerPractice
    \/ ClickNext
    \/ ClickHome
    \/ Abandon
    \/ Navigate
    \/ Rerun

SpecPractice == PracticeInit /\ [][PracticeNext]_vars

(* ---------------------------------------------------------------------- *)
(* Properties of the selector                                              *)
(* ---------------------------------------------------------------------- *)
NoDuplicates(s) == \A i, j \in 1..Len(s) : i # j => s[i] # s[j]
TagsIn(s) == {s[i].tag : i \in 1..Len(s)}
CountOfTag(s, t) == Len(GroupOf(s, t))
Returned == pc = "done"
\* the call took the round-robin branch: count < |filtered pool|
Budgeted == args.num_questions < Len(ArgFiltered)

\* C2: the returned list holds only pool questions whose tag is in the filter, holds
\* no question twice, and has length min(count, |filtered pool|); when count is at
\* least that size it is, as a set, the whole filtered pool.
C2_SelectFilterSize ==
    Returned =>
        /\ \A i \in 1..Len(result) :
              /\ result[i] \in Range(args.questions)
              /\ result[i].tag \in args.selected_tags
        /\ NoDuplicates(result)
        /\ Len(result) = Min2(args.num_questions, Len(ArgFiltered))
        /\ args.num_questions >= Len(ArgFiltered) => Range(result) = Range(ArgFiltered)

\* a budgeted call over a pool part of which the filter excludes has returned
C2_Witness ==
    /\ Returned
    /\ Budgeted
    /\ Len(result) = args.num_questions
    /\ Len(ArgFiltered) < Len(args.questions)
    /\ Cardinality(TagsIn(args.questions)) > 1

\* C3: with count < |filtered pool| the selection is as even as possible: a tag that
\* got at least two questions fewer than another tag was exhausted.
C3_EvenSelection ==
    (Returned /\ Budgeted) =>
        \A X, Y \in TagsIn(ArgFiltered) :
            CountOfTag(result, Y) >= CountOfTag(result, X) + 2
                => CountOfTag(result, X) = CountOfTag(ArgFiltered, X)

\* C4: with count < |filtered pool|, every tag contributes at least one question
\* when count >= number of tags, and no tag contributes more than one when
\* count < number of tags.
C4_TagCoverage ==
    (Returned /\ Budgeted) =>
        LET T == TagsIn(ArgFiltered)
        IN  /\ args.num_questions >= Cardinality(T)
                => \A t \in T : CountOfTag(result, t) >= 1
            /\ args.num_questions < Cardinality(T)
                => \A t \in T : CountOfTag(result, t) <= 1

\* tags of sizes 3 and 1, count 2: the single question of the small tag is returned
C4_Witness ==
    /\ Returned
    /\ args.num_questions = 2
    /\ \E A, B \in TagsIn(ArgFiltered) :
          /\ TagsIn(ArgFiltered) = {A, B}
          /\ CountOfTag(ArgFiltered, A) = 3
          /\ CountOfTag(ArgFiltered, B) = 1
          /\ CountOfTag(result, B) = 1

\* the error rate the history gives a question: wrong / (correct + wrong), and 1/2
\* for a question without answers
ErrorRate(q, m) ==
    IF q.id \in DOMAIN m /\ m[q.id].correct + m[q.id].wrong > 0
    THEN <<m[q.id].wrong, m[q.id].correct + m[q.id].wrong>>
    ELSE <<1, 2>>

\* q comes before u in the order "error rate descending, ties in pool order"
Before(q, u, m, pool) ==
    \/ ScoreLess(ErrorRate(u, m), ErrorRate(q, m))
    \/ /\ ~ScoreLess(ErrorRate(q, m), ErrorRate(u, m))
       /\ \E i, j \in 1..Len(pool) : i < j /\ pool[i] = q /\ pool[j] = u

\* what is selected from every tag is a prefix of the tag's group in that order
HardestFirst(m) ==
    \A q \in Range(result) :
        \A u \in Range(ArgFiltered) \ Range(result) :
            u.tag = q.tag =>
                /\ Before(q, u, m, args.questions)
                /\ ~ScoreLess(ErrorRate(q, m), ErrorRate(u, m))

\* C5 as claimed: whenever a stats map is supplied, whatever its entries, and
\* count < |filtered pool|, the questions selected from a tag are the first ones of
\* its group in the order difficulty descending, ties in pool order.
C5_AnySuppliedStats ==
    (Returned /\ Budgeted /\ args.question_stats # None)
        => HardestFirst(args.question_stats[1])

\* C5 amended: the same, whenever the supplied stats map has at least one entry.
C5_HardestFirst ==
    (Returned /\ Budgeted /\ StatsTruthy(args.question_stats))
        => HardestFirst(args.question_stats[1])

\* a tag with a harder second question and a tie: the harder one was selected, an
\* equally hard earlier one too, a later one of them was left out
C5_Witness ==
    /\ Returned
    /\ Budgeted
    /\ StatsTruthy(args.question_stats)
    /\ \E i, j, k \in 1..Len(ArgFiltered) :
          LET m == args.question_stats[1]
              a == ArgFiltered[i]
              b == ArgFiltered[j]
              c == ArgFiltered[k]
          IN  /\ i < j /\ j < k
              /\ a.tag = b.tag /\ b.tag = c.tag
              /\ ScoreLess(ErrorRate(a, m), ErrorRate(b, m))
              /\ ErrorRate(a, m) = ErrorRate(c, m)
              /\ a \in Range(result) /\ b \in Range(result)
              /\ c \notin Range(result)

(* ---------------------------------------------------------------------- *)
(* Properties of the quiz flow                                             *)
(* ---------------------------------------------------------------------- *)
QuizOn == Get(session_state, "quiz_started", FALSE)
Questions == session_state["questions"]
Index == session_state["current_index"]
Answered == session_state["answered"]
Score == session_state["score"]
Wrong == session_state["wrong_questions"]
Selected == session_state["selected_answer"]
Round == session_state["current_round"]
History == session_state["round_history"]
CurrentQuestion == Questions[Index + 1]
\* the state of the round in progress
RoundState == <<Questions, Index, Answered, Score, Wrong, Selected>>

\* question i being presented / answered, and the round complete
Presenting == QuizOn /\ OnQuestion /\ ~Answered
HasAnswered == QuizOn /\ OnQuestion /\ Answered
Complete == QuizOn /\ Completed

IsPermutation(a, b) ==
    /\ Len(a) = Len(b)
    /\ \A x \in Range(a) \cup Range(b) :
          Cardinality({i \in 1..Len(a) : a[i] = x})
              = Cardinality({i \in 1..Len(b) : b[i] = x})

\* C1: no session record has its score updated twice, whatever the sequence of
\* events.
C1_ScoreUpdatedOnce ==
    \A i, j \in 1..Len(update_calls) :
        i # j => update_calls[i].session_id # update_calls[j].session_id

\* the records of two rounds were both updated and the second completion view has
\* been rendered again after a click in the sidebar
C1_Witness ==
    /\ Complete
    /\ Len(update_calls) = 2
    /\ Round = 2
    /\ session_state["session_score_saved"]
    /\ session_state["page"] = "Dashboard"

\* what of the round is answered so far: the first Index questions, and the current
\* one when it is answered
AnsweredSoFar ==
    SubSeq(Questions, 1, IF Index < Len(Questions) /\ Answered THEN Index + 1 ELSE Index)

\* the rows of the answer history written under the current session record
RowsOfSession ==
    LET Mine(row) == row.session_id = session_state["current_session_id"]
    IN  SelectSeq(db.answers, Mine)

\* every question up to the current one has one answer, in list order
AnsweredInOrder ==
    QuizOn =>
        /\ Score + Len(Wrong) = Len(AnsweredSoFar)
        /\ (LoggedIn /\ session_state["current_session_id"] # NoId) =>
              /\ Len(RowsOfSession) = Len(AnsweredSoFar)
              /\ \A k \in 1..Len(RowsOfSession) :
                    RowsOfSession[k].question_id = AnsweredSoFar[k].id

\* a step of a round: from Presenting(i) only a submitted answer changes the round,
\* to Answered(i); from Answered(i) only "next" does, to question i+1 or to the
\* completion view; the quiz may be discarded at any time
RoundStep ==
    /\ Presenting =>
          \/ ~QuizOn'
          \/ RoundState' = RoundState
          \/ /\ last_event'.name = "option"
             /\ HasAnswered'
             /\ Index' = Index
             /\ Questions' = Questions
    /\ HasAnswered =>
          \/ ~QuizOn'
          \/ RoundState' = RoundState
          \/ /\ last_event'.name = "next"
             /\ Index' = Index + 1
             /\ Questions' = Questions
             /\ Score' = Score /\ Wrong' = Wrong
             /\ IF Index + 1 < Len(Questions) THEN Presenting' ELSE Complete'

\* C6: within a round the events go submitAnswer, advance, submitAnswer, ...; every
\* question is answered exactly once, in list order, before the round completes.
C6_RoundSequence == []AnsweredInOrder /\ [][RoundStep]_vars

\* a round of two questions has completed, both answers recorded under its session
C6_Witness ==
    /\ Complete
    /\ LoggedIn
    /\ Len(Questions) = 2
    /\ Len(RowsOfSession) = 2

\* an event of the round that the state does not allow
OutOfState ==
    /\ InQuiz
    /\ \/ last_event'.name = "option" /\ (HasAnswered \/ Complete)
       \/ last_event'.name = "next" /\ Presenting

C8_SubmitEffect ==
    [][(Presenting /\ InQuiz /\ last_event'.name = "option") =>
          LET i == last_event'.arg
              q == CurrentQuestion
          IN  /\ QuizOn'
              /\ Answered'
              /\ Selected' = i
              /\ IF i = q.answer_index
                 THEN Score' = Score + 1 /\ Wrong' = Wrong
                 ELSE Score' = Score /\ Wrong' = Append(Wrong, q)
              /\ Index' = Index
              /\ Questions' = Questions
              /\ Round' = Round
              /\ History' = History]_vars

\* the second question was answered wrongly after a right answer to the first
C8_Witness ==
    /\ HasAnswered
    /\ last_event.name = "option"
    /\ Index = 1
    /\ Score = 1
    /\ Wrong = <<CurrentQuestion>>
    /\ Selected # CurrentQuestion.answer_index

\* C9: from the completion view a round is started only by repeating a non-empty
\* wrong list; the new round is a permutation of that list, has the next round
\* number, and starts with index 0, score 0, nothing answered or selected, an empty
\* wrong list and the saved-flag false.
C9_RepeatWrong ==
    [][(Complete /\ QuizOn' /\ (~Completed' \/ Round' # Round \/ Questions' # Questions))
          => /\ Wrong # <<>>
             /\ IsPermutation(Questions', Wrong)
             /\ Round' = Round + 1
             /\ Index' = 0
             /\ Score' = 0
             /\ Answered' = FALSE
             /\ Selected' = NoAnswer
             /\ Wrong' = <<>>
             /\ Has(session_state', "session_score_saved")
             /\ session_state'["session_score_saved"] = FALSE]_vars

\* round 2 has just started over the two questions missed in round 1, reordered
C9_Witness ==
    /\ Presenting
    /\ Round = 2
    /\ Index = 0
    /\ Len(History) = 1
    /\ Len(Questions) = 2
    /\ Questions # History[1].wrong
    /\ IsPermutation(Questions, History[1].wrong)

\* C10: the history holds one result per completed round, results[k] with round
\* number k; during a round the round number is len(results) + 1, on the completion
\* view it is len(results).
C10_RoundHistory ==
    QuizOn =>
        /\ \A k \in 1..Len(History) : History[k].round = k
        /\ OnQuestion => Round = Len(History) + 1
        /\ Completed => Round = Len(History)

\* the completion view of round 2 rendered again, by a late click on an option
C10_Witness ==
    /\ Complete
    /\ Round = 2
    /\ Len(History) = 2
    /\ last_event.name = "option"

\* C11: while a quiz is on, the totals of the recorded rounds add up to the number
\* of answers given in the completed rounds since the quiz was started, and their
\* scores add up to the number of correct answers given in those rounds. The tally
\* counts every answer given since the start; what of it belongs to the round in
\* progress is not yet recorded.
C11_HistoryTotals ==
    QuizOn =>
        /\ Complete => Len(History) = Round
        /\ ~Complete => Len(History) = Round - 1
        /\ Sum(History, "total") + (IF Complete THEN 0 ELSE Len(AnsweredSoFar))
               = tally.presented
        /\ Sum(History, "score") + (IF Complete THEN 0 ELSE Score) = tally.correct

\* two rounds are recorded: three answers were given, two of them correct
C11_Witness ==
    /\ Complete
    /\ Len(History) = 2
    /\ tally = [presented |-> 3, correct |-> 2]
    /\ Sum(History, "total") = 3

\* the number of pairs <<round, unit>> with unit ranging over the round's field: the
\* sum of the field over the history, counted rather than added
CountOver(history, field) ==
    Cardinality({p \in (1..Len(history)) \X (1..Max({0} \cup {history[i][field] :
                                                            i \in 1..Len(history)})) :
                    p[2] <= history[p[1]][field]})

\* C12: on every completion view with more than one recorded round the accumulated
\* summary is the sum of the rounds' scores over the sum of their totals, a function
\* of the round history alone; rounds 8/10 and 3/3 give 11/13. With a single round
\* no accumulated summary is computed.
C12_Accumulated ==
    /\ Accumulated(<<[round |-> 1, score |-> 8, total |-> 10, wrong |-> <<>>],
                     [round |-> 2, score |-> 3, total |-> 3, wrong |-> <<>>]>>)
           = Some([correct_all |-> 11, total_all |-> 13])
    /\ Complete =>
          IF Len(History) > 1
          THEN Accumulated(History)
                  = Some([correct_all |-> CountOver(History, "score"),
                          total_all   |-> CountOver(History, "total")])
          ELSE Accumulated(History) = None

\* the completion view of a second round: one of three answers was correct
C12_Witness ==
    /\ Complete
    /\ Len(History) = 2
    /\ Accumulated(History) = Some([correct_all |-> 1, total_all |-> 3])

\* the session record create_session adds for the user
NewRecord(test_id, total) ==
    [user_id |-> UserId, test_id |-> test_id, score |-> 0, total |-> total]

\* C13: persistence follows authentication. "Comenzar Test" with eligible questions
\* adds a session record (score 0, total = number of selected questions) exactly
\* when the user is logged in; "Repetir preguntas falladas" adds one for the same
\* test (score 0, total = length of the wrong list) exactly when the user is logged
\* in; and no step taken by an anonymous user changes the database or calls
\* update_session_score.
C13_Persistence ==
    [][/\ (last_event'.name = "start" /\ last_event'.arg > 0) =>
             IF LoggedIn
             THEN /\ db' = [db EXCEPT !.sessions =
                               Append(@, NewRecord(session_state["selected_test"],
                                                   Len(Questions')))]
                  /\ session_state'["current_session_id"] = Len(db'.sessions)
             ELSE /\ db' = db
                  /\ session_state'["current_session_id"] = NoId
       /\ (QuizOn /\ QuizOn' /\ Round' = Round + 1) =>
             /\ Len(Questions') = Len(Wrong)
             /\ IF LoggedIn
                THEN /\ db' = [db EXCEPT !.sessions =
                                  Append(@, NewRecord(session_state["current_test_id"],
                                                      Len(Wrong)))]
                     /\ session_state'["current_session_id"] = Len(db'.sessions)
                ELSE /\ db' = db
                     /\ session_state'["current_session_id"] = NoId
       /\ ~LoggedIn => (db' = db /\ update_calls' = update_calls)
      ]_vars

\* a logged-in user has just repeated the wrong questions of a first round: the
\* second record is open for the same test
C13_Witness ==
    /\ LoggedIn
    /\ QuizOn
    /\ Round = 2
    /\ Index = 0
    /\ ~Answered
    /\ Len(db.sessions) = 2
    /\ db.sessions[2] = NewRecord(db.sessions[1].test_id, Len(Questions))
    /\ session_state["current_session_id"] = 2

\* no round with nothing to ask: in progress, recorded in the history, or persisted
NoZeroTotal ==
    /\ QuizOn => /\ Len(Questions) > 0
                 /\ \A k \in 1..Len(History) : History[k].total > 0
    /\ \A k \in 1..Len(db.sessions) : db.sessions[k].total > 0

C19_RunningState ==
    QuizOn =>
        /\ 0 <= Index /\ Index <= Len(Questions)
        /\ Score + Len(Wrong) = Index + (IF Answered THEN 1 ELSE 0)
        /\ \A k \in 1..Len(Wrong) :
              \E i \in 1..Min2(Index + 1, Len(Questions)) : Questions[i] = Wrong[k]
        /\ NoDuplicates(Wrong)
        /\ Complete => /\ Score + Len(Wrong) = Len(Questions)
                       /\ 0 <= Score /\ Score <= Len(Questions)

\* the second question of a round is answered: one answer was right, one wrong
C19_Witness ==
    /\ HasAnswered
    /\ Index = 1
    /\ Score = 1
    /\ Len(Wrong) = 1
    /\ Len(Questions) = 2

\* C17: with a non-empty stats map and count < |filtered pool| the set of selected
\* questions does not depend on the random source: whatever the random outcomes of
\* a second run on the same arguments, it returns the same questions as the run
\* at hand, possibly in another order.
C17_SameSelection ==
    (Returned /\ Budgeted /\ StatsTruthy(args.question_stats)) =>
        \A x, y \in 0..MaxRand :
            Range(select_balanced_questions(args.questions, args.selected_tags,
                                            args.num_questions, args.question_stats,
                                            [t \in Tags |-> x], y))
                = Range(result)

\* a budgeted call with stats on the pool's own questions has left out a question
\* of a tag it selected from, and the final shuffle has changed the order
C17_Witness ==
    /\ Returned
    /\ Budgeted
    /\ StatsTruthy(args.question_stats)
    /\ \E i \in 1..Len(args.questions) : i \in DOMAIN args.question_stats[1]
    /\ \E t \in Tags : /\ CountOfTag(result, t) > 0
                        /\ CountOfTag(result, t) < CountOfTag(ArgFiltered, t)
    /\ result # loop.selected

\* the question has a history of at least one answer
HasData(q, m) == q.id \in DOMAIN m /\ m[q.id].correct + m[q.id].wrong > 0

\* C18: the difficulty score is 1/2 for a question without a stats entry or with
\* an entry of no answers, and wrong / (correct + wrong) otherwise; it lies in
\* [0, 1]; of two questions with a history the one with the strictly higher error
\* rate has the strictly higher score.
C18_DifficultyScore ==
    args.question_stats # None =>
        LET m == args.question_stats[1]
            n == Len(args.questions)
        IN  \A i \in 1..n :
                LET q == args.questions[i]
                    s == _difficulty_score(q, m)
                IN  /\ s[2] > 0
                    /\ IF HasData(q, m)
                       THEN s[1] * (m[q.id].correct + m[q.id].wrong)
                               = m[q.id].wrong * s[2]
                       ELSE 2 * s[1] = s[2]
                    /\ 0 <= s[1] /\ s[1] <= s[2]
                    /\ \A j \in 1..n :
                          LET u == args.questions[j]
                          IN  (/\ HasData(q, m) /\ HasData(u, m)
                               /\ m[q.id].wrong * (m[u.id].correct + m[u.id].wrong)
                                     > m[u.id].wrong * (m[q.id].correct + m[q.id].wrong))
                              => ScoreLess(_difficulty_score(u, m), s)

\* a call has sorted a group of three: one question always failed, one failed half
\* of the time, one without an entry
C18_Witness ==
    /\ Returned
    /\ Budgeted
    /\ StatsTruthy(args.question_stats)
    /\ Len(args.questions) = 3
    /\ LET m == args.question_stats[1]
       IN  /\ DOMAIN m = {1, 2}
           /\ m[1] = [correct |-> 0, wrong |-> MaxStat]
           /\ m[2].correct > 0 /\ m[2].wrong > 0
    /\ TagsIn(args.questions) = {1}

(* ---------------------------------------------------------------------- *)
(* Properties of the practice from earlier sessions                        *)
(* ---------------------------------------------------------------------- *)
\* the wrong references of the sessions ticked in the recorded practice event, as
\* the dashboard gathers them from database d: session after session, duplicates
\* included
GatheredRefs(d, mask) ==
    LET Ticked(sid) == sid \in Checked(mask, Len(d.sessions))
    IN  AllWrong(d, SelectSeq(get_user_sessions(d, UserId), Ticked), 1)

\* the repository has the question the reference names
Resolves(ref) ==
    /\ ref.test_id # NoId
    /\ ref.test_id \in TestIds
    /\ \E i \in 1..Len(get_test_questions(ref.test_id)) :
          get_test_questions(ref.test_id)[i].id = ref.question_id

\* the test a question of the catalog belongs to
OwnerOf(q) == CHOOSE t \in TestIds : q \in Range(get_test_questions(t))

\* C14: practice from wrong references deduplicates. Whatever sessions are ticked,
\* with references repeated within and across them, the round started holds each
\* (test, question) at most once, and each reference with a test id that the
\* repository resolves exactly once; it holds nothing else.
C14_Deduplicated ==
    last_event.name = "practice" =>
        LET refs == GatheredRefs(db, last_event.arg)
            resolvable == {r \in Range(refs) : Resolves(r)}
        IN  IF resolvable = {} THEN ~QuizOn
            ELSE /\ QuizOn
                 /\ \A i, j \in 1..Len(Questions) :
                       i # j => <<OwnerOf(Questions[i]), Questions[i].id>>
                                   # <<OwnerOf(Questions[j]), Questions[j].id>>
                 /\ \A r \in resolvable :
                       Cardinality({i \in 1..Len(Questions) :
                                       /\ Questions[i].id = r.question_id
                                       /\ OwnerOf(Questions[i]) = r.test_id}) = 1
                 /\ Len(Questions) = Cardinality(resolvable)

\* two sessions of test 1 were ticked: the first failed question 1 twice, the
\* second failed questions 1 and 2; the round has the two questions
C14_Witness ==
    /\ last_event.name = "practice"
    /\ QuizOn
    /\ Len(Questions) = 2
    /\ Len(GatheredRefs(db, last_event.arg)) = 4
    /\ LET refs == GatheredRefs(db, last_event.arg)
       IN  \E i, j, k \in 1..4 :
              /\ i # j /\ j # k /\ i # k
              /\ refs[i] = refs[j] /\ refs[j] = refs[k]

\* C15: when no gathered reference resolves to a question, the practice button does
\* nothing: no session record, no quiz state key written, quiz_started still false,
\* the page unchanged.
C15_EmptyPractice ==
    [][(/\ last_event'.name = "practice"
        /\ \A r \in Range(GatheredRefs(db, last_event'.arg)) : ~Resolves(r))
          => /\ session_state' = session_state
             /\ db' = db
             /\ update_calls' = update_calls
             /\ ~QuizOn'
             /\ session_state'["page"] = "Dashboard"]_vars

\* both sessions of the history are of a deleted test and both were ticked: the
\* user is still on the dashboard and no record was added
C15_Witness ==
    /\ last_event.name = "practice"
    /\ last_event.arg = 3
    /\ Len(db.sessions) = 2
    /\ \A k \in 1..2 : db.sessions[k].test_id = DeletedTest
    /\ View = "dashboard"
    /\ ~QuizOn
    /\ QuizKeys \cap DOMAIN session_state = {"quiz_started"}

\* C20: every row written to the answer history is attributed correctly: it names
\* the user, the question answered, the test that owns that question, whether the
\* chosen option is the question's answer_index, and the session record opened for
\* the round in progress; also in a practice quiz whose questions come from more
\* than one test.
C20_Attribution ==
    [][Len(db'.answers) = Len(db.answers) + 1 =>
          LET row == db'.answers[Len(db'.answers)]
              q == CurrentQuestion
              sid == session_state["current_session_id"]
          IN  /\ SubSeq(db'.answers, 1, Len(db.answers)) = db.answers
              /\ row.user_id = UserId
              /\ row.question_id = q.id
              /\ row.correct = (last_event'.arg = q.answer_index)
              /\ row.session_id = sid
              /\ sid \in 1..Len(db.sessions)
              /\ db.sessions[sid].total = Len(Questions)
              /\ row.test_id = OwnerOf(q)]_vars

(* ---------------------------------------------------------------------- *)
(* Properties of persistence, navigation and discarding                    *)
(* ---------------------------------------------------------------------- *)
\* the rows of the answer history under a session id, and the correct ones
RowsUnder(d, sid) == {i \in 1..Len(d.answers) : d.answers[i].session_id = sid}
CorrectUnder(d, sid) == {i \in RowsUnder(d, sid) : d.answers[i].correct}

\* C21: session record and answer history agree. The completion update of a round
\* writes as score the number of answers recorded as correct under the round's
\* session id and as total the number of answers recorded under it, the total the
\* record was created with; record and history stay in agreement afterwards.
C21_RecordAgreesWithHistory ==
    /\ [](\A k \in 1..Len(update_calls) :
            LET c == update_calls[k]
            IN  /\ c.total = Cardinality(RowsUnder(db, c.session_id))
                /\ c.score = Cardinality(CorrectUnder(db, c.session_id))
                /\ db.sessions[c.session_id].score = c.score
                /\ db.sessions[c.session_id].total = c.total)
    /\ [][Len(update_calls') = Len(update_calls) + 1 =>
             LET c == update_calls'[Len(update_calls')]
             IN  /\ SubSeq(update_calls', 1, Len(update_calls)) = update_calls
                 /\ LoggedIn
                 /\ c.session_id = session_state["current_session_id"]
                 /\ db.sessions[c.session_id].score = 0
                 /\ db.sessions[c.session_id].total = c.total]_vars

\* a logged-in round of two questions is complete and its record updated: one of
\* the two recorded answers was correct
C21_Witness ==
    /\ Complete
    /\ LoggedIn
    /\ update_calls = <<[session_id |-> 1, score |-> 1, total |-> 2]>>
    /\ Cardinality(RowsUnder(db, 1)) = 2
    /\ Cardinality(CorrectUnder(db, 1)) = 1

\* the quiz of the next state is the quiz of this state: the same round, or the
\* round that repeats its wrong questions
Continues ==
    /\ session_state'["current_test_id"] = session_state["current_test_id"]
    /\ Len(History') >= Len(History)
    /\ SubSeq(History', 1, Len(History)) = History
    /\ \/ Round' = Round /\ Questions' = Questions
       \/ /\ Complete
          /\ Round' = Round + 1
          /\ IsPermutation(Questions', Wrong)

\* the session state after reset_quiz and the rerun that follows it
Discarded(ss) == Put(reset_quiz(ss), [quiz_started |-> FALSE])

\* C22: one quiz at a time. While a quiz is started the script shows the quiz view
\* (or the profile page), never the catalog, the configuration page or the
\* dashboard, whatever was clicked in the sidebar or the profile menu; so a quiz is
\* started only where none is started, and a started quiz goes on, is replaced by
\* its repeat round, or is discarded by reset_quiz or with the whole session state
\* (logout, a new browser session after st.login).
C22_SingleQuiz ==
    /\ [](QuizOn => View \in {"quiz", "profile"})
    /\ [][/\ (QuizOn /\ QuizOn') => Continues
          /\ (QuizOn /\ ~QuizOn') =>
                \/ session_state' = Discarded(session_state)
                \/ LoggedIn /\ ~LoggedIn' /\ ~st_user'
                \/ ~st_user /\ st_user'
          /\ (~QuizOn /\ QuizOn') =>
                /\ View \in {"config", "dashboard"}
                /\ session_state'["current_round"] = 1
                /\ session_state'["current_index"] = 0]_vars

\* during a quiz the user has clicked "Dashboard" in the sidebar, opened the
\* profile and saved it: the answered question is still shown
C22_Witness ==
    /\ HasAnswered
    /\ View = "quiz"
    /\ session_state["page"] = "Dashboard"
    /\ Get(session_state, "prev_page", "Tests") = "Dashboard"

\* C23: "Abandonar test" is there on every question, answered or not, and "Volver
\* al inicio" on the completion view; either removes every key of the quiz state
\* (the rerun that follows puts quiz_started back as False), calls nothing of the
\* database (the record of an unfinished round keeps score 0 and its total, the
\* recorded answers stay) and leaves the user and the page as they are.
C23_Discard ==
    /\ [](/\ (InQuiz /\ OnQuestion) =>
               LET abandoned == Run(World, Event("abandon", 0))
               IN  abandoned.ss = Discarded(session_state) /\ abandoned.db = db
           /\ (InQuiz /\ Completed) =>
               LET home == Run(World, Event("home", 0))
               IN  home.ss = Discarded(session_state) /\ home.db = db)
    /\ [][last_event'.name \in {"abandon", "home"} =>
             /\ QuizOn
             /\ QuizKeys \cap DOMAIN reset_quiz(session_state) = {}
             /\ session_state' = Discarded(session_state)
             /\ ~QuizOn'
             /\ db' = db
             /\ update_calls' = update_calls
             /\ st_user' = st_user
             /\ Get(session_state', "user_id", NoId) = Get(session_state, "user_id", NoId)
             /\ session_state'["page"] = session_state["page"]]_vars

\* a logged-in user has abandoned a round of two questions after one wrong answer:
\* the record still has score 0 of 2 and the answer is in the history
C23_Witness ==
    /\ last_event.name = "abandon"
    /\ LoggedIn
    /\ ~QuizOn
    /\ QuizKeys \cap DOMAIN session_state = {"quiz_started"}
    /\ Len(db.sessions) = 1
    /\ db.sessions[1].score = 0
    /\ db.sessions[1].total = 2
    /\ Len(db.answers) = 1
    /\ ~db.answers[1].correct

\* C24: a recorded round result is immutable. While the quiz goes on, every entry
\* of the round history keeps its round number, score, total and wrong list, in
\* content and order: the shuffle of the wrong list at the start of a repeat round
\* and the answers of later rounds leave it alone (the entry holds a copy,
\* list(wrong), of the list that becomes the next round's questions).
C24_ResultImmutable ==
    [][(QuizOn /\ QuizOn') =>
          \A k \in 1..Len(History) :
              /\ k <= Len(History')
              /\ History'[k] = History[k]]_vars

\* the first question of a repeat round is answered wrongly; the round asks the
\* wrong questions of round 1 in another order than the recorded one
C24_Witness ==
    /\ HasAnswered
    /\ Round = 2
    /\ Len(History) = 1
    /\ Len(History[1].wrong) = 2
    /\ Questions # History[1].wrong
    /\ IsPermutation(Questions, History[1].wrong)
    /\ Wrong = <<Questions[1]>>

(* ---------------------------------------------------------------------- *)
(* Termination of the selector's loop                                      *)
(* ---------------------------------------------------------------------- *)
\* C25: the round-robin loop always terminates. It never indexes an empty tag list,
\* every iteration either selects one question or removes one exhausted tag, and
\* it is left with exactly count questions selected, never through the break taken
\* when all groups are exhausted; every call that enters the loop returns.
C25_LoopTerminates ==
    /\ []((pc = "loop" /\ LoopRuns(loop, args.num_questions)) => loop.tag_list # <<>>)
    /\ [](~loop.broke)
    /\ [][(pc = "loop" /\ pc' = "loop") =>
             \/ /\ Len(loop'.selected) = Len(loop.selected) + 1
                /\ loop'.tag_list = loop.tag_list
             \/ /\ loop'.selected = loop.selected
                /\ Len(loop'.tag_list) = Len(loop.tag_list) - 1
                /\ \E t \in Range(loop.tag_list) :
                      /\ loop.questions_by_tag[t] = <<>>
                      /\ loop'.tag_list = RemoveFirst(loop.tag_list, t)]_vars
    /\ [][(pc = "loop" /\ pc' = "done") =>
             /\ Len(loop.selected) = args.num_questions
             /\ Len(result') = args.num_questions]_vars
    /\ (pc = "loop") ~> (pc = "done")

\* a call with count < |filtered pool| has returned after its loop removed an
\* exhausted tag from the rotation
C25_Witness ==
    /\ Returned
    /\ Budgeted
    /\ Len(loop.tag_list) < Cardinality(TagsIn(ArgFiltered))
    /\ loop.tag_list # <<>>
    /\ Len(result) = args.num_questions

====
